---- MODULE Spec2Model ----
(***************************************************************************)
(* Layer-graph construction of seg_n.py: residual_block and cell_detector. *)
(* A tensor is a node of the layer graph; its shape is (height, width,     *)
(* channels), the batch axis being the same for every tensor.  Each layer  *)
(* call of the source is one step that appends a node to the graph or      *)
(* stops the build with the framework's shape error.                       *)
(***************************************************************************)
EXTENDS Integers, Sequences, FiniteSets, TLC

\* ---------------------------------------------------------------- bounds
MaxDim == 24
MaxC == 2
MaxRBDim == 3
MaxF == 3

\* cell_detector(input_shape=(128, 128, 3))
DefaultShape == <<128, 128, 3>>

VARIABLES test, args, graph, pc, env, rpc, frame, calls, status, err, model

vars == <<test, args, graph, pc, env, rpc, frame, calls, status, err, model>>

\* ------------------------------------------------------ shapes of layers
\* conv_output_length of the framework for one spatial axis
ConvOutputLength(n, k, padding, stride) ==
  LET len == IF padding = "same" THEN n ELSE n - k + 1
  IN  (len + stride - 1) \div stride

\* variant: padding='same' dropped, the framework default 'valid' applies
Conv2DShapeValid(s, filters, k, padding) ==
  <<ConvOutputLength(s[1], k, "valid", 1), ConvOutputLength(s[2], k, "valid", 1), filters>>

\* Conv2D(filters, kernel_size=(k, k), strides=(1, 1), padding)
Conv2DShape(s, filters, k, padding) ==
  <<ConvOutputLength(s[1], k, padding, 1), ConvOutputLength(s[2], k, padding, 1), filters>>

Conv2DOK(s, k, padding) == padding = "same" \/ (s[1] >= k /\ s[2] >= k)

\* variant: padding='same' pooling, which rounds up
AveragePooling2DShapeCeil(s) ==
  <<(s[1] + 1) \div 2, (s[2] + 1) \div 2, s[3]>>

\* AveragePooling2D(pool_size=(2, 2), padding='valid'): strides = pool_size
AveragePooling2DShape(s) ==
  <<ConvOutputLength(s[1], 2, "valid", 2), ConvOutputLength(s[2], 2, "valid", 2), s[3]>>

\* variant: an axis of length 1 pools to length 0 without an error
AveragePooling2DOKAny(s) == TRUE

\* a window of 2 does not fit an axis of length 1 (negative dimension size)
AveragePooling2DOK(s) == s[1] >= 2 /\ s[2] >= 2

\* variant: upsampling that is one short of doubling
UpSampling2DShapeOdd(s) == <<2 * s[1] - 1, 2 * s[2] - 1, s[3]>>

\* UpSampling2D(size=(2, 2), interpolation='bilinear')
UpSampling2DShape(s) == <<2 * s[1], 2 * s[2], s[3]>>

\* Add()([a, b]): elementwise merge, an axis of length 1 broadcasts
AddOK(a, b) == \A i \in 1..3 : a[i] = b[i] \/ a[i] = 1 \/ b[i] = 1

AddShape(a, b) == [i \in 1..3 |-> IF a[i] = 1 THEN b[i] ELSE a[i]]

\* concatenate([a, b], axis=-1): every other axis must match
ConcatenateOK(a, b) == a[1] = b[1] /\ a[2] = b[2]

ConcatenateShape(a, b) == <<a[1], a[2], a[3] + b[3]>>

\* ----------------------------------------------------------- instructions
Ins(op, src, dst, n, k, padding, line) ==
  [op |-> op, src |-> src, dst |-> dst, n |-> n, k |-> k, padding |-> padding,
   filters |-> <<0, 0>>, channels |-> 0, stage |-> 0, line |-> line]

Call(src, dst, filters, channels, stage, line) ==
  [op |-> "residual_block", src |-> <<src>>, dst |-> dst, n |-> 0, k |-> 0,
   padding |-> "", filters |-> filters, channels |-> channels, stage |-> stage,
   line |-> line]

\* variant: the shortcut taken after the first ELU
ResidualBodyELUAfterShortcutSwap(filters, channels, stage) == <<
  Ins("ELU",     <<"X">>, "X", 0, 0, "", 55),
  Ins("Assign",  <<"X">>, "X_shortcut", 0, 0, "", 50),
  Ins("Conv2D",  <<"X">>, "X", filters[1], 3, "same", 56),
  Ins("Dropout", <<"X">>, "X", 2, 10, "", 57),
  Ins("ELU",     <<"X">>, "X", 0, 0, "", 58),
  Ins("Conv2D",  <<"X">>, "X", filters[2], 3, "same", 59),
  Ins("Lambda",  <<"X">>, "X", 3, 10, "", 60),
  Ins("Add",     <<"X", "X_shortcut">>, "X", 0, 0, "", 62),
  Ins("Conv2D",  <<"X">>, "X", channels, 1, "valid", 64),
  Ins("Return",  <<"X">>, "", 0, 0, "", 66) >>

\* variant: the Scaling layer left out
ResidualBodyNoScaling(filters, channels, stage) == <<
  Ins("Assign",  <<"X">>, "X_shortcut", 0, 0, "", 50),
  Ins("ELU",     <<"X">>, "X", 0, 0, "", 55),
  Ins("Conv2D",  <<"X">>, "X", filters[1], 3, "same", 56),
  Ins("Dropout", <<"X">>, "X", 2, 10, "", 57),
  Ins("ELU",     <<"X">>, "X", 0, 0, "", 58),
  Ins("Conv2D",  <<"X">>, "X", filters[2], 3, "same", 59),
  Ins("Add",     <<"X", "X_shortcut">>, "X", 0, 0, "", 62),
  Ins("Conv2D",  <<"X">>, "X", channels, 1, "valid", 64),
  Ins("Return",  <<"X">>, "", 0, 0, "", 66) >>

\* residual_block(X, filters, channels, stage), lines 50-66
ResidualBody(filters, channels, stage) == <<
  Ins("Assign",  <<"X">>, "X_shortcut", 0, 0, "", 50),
  Ins("ELU",     <<"X">>, "X", 0, 0, "", 55),
  Ins("Conv2D",  <<"X">>, "X", filters[1], 3, "same", 56),
  Ins("Dropout", <<"X">>, "X", 2, 10, "", 57),
  Ins("ELU",     <<"X">>, "X", 0, 0, "", 58),
  Ins("Conv2D",  <<"X">>, "X", filters[2], 3, "same", 59),
  Ins("Lambda",  <<"X">>, "X", 3, 10, "", 60),
  Ins("Add",     <<"X", "X_shortcut">>, "X", 0, 0, "", 62),
  Ins("Conv2D",  <<"X">>, "X", channels, 1, "valid", 64),
  Ins("Return",  <<"X">>, "", 0, 0, "", 66) >>

\* cell_detector(input_shape), lines 70-74
Stem == <<
  Ins("Input", <<>>, "input_layer", 0, 0, "", 70),
  Ins("Conv2D", <<"input_layer">>, "X", 32, 3, "same", 72),
  Call("X", "res_out_1", <<32, 32>>, 32, 1, 73),
  Ins("Conv2D", <<"res_out_1">>, "X", 64, 3, "same", 74) >>

DownSamplingBlock1 == <<
  Ins("AveragePooling2D", <<"X">>, "X", 0, 2, "valid", 77),
  Call("X", "res_out_2", <<64, 64>>, 64, 2, 78),
  Ins("Conv2D", <<"res_out_2">>, "X", 128, 3, "same", 79) >>

DownSamplingBlock2 == <<
  Ins("AveragePooling2D", <<"X">>, "X", 0, 2, "valid", 82),
  Call("X", "res_out_3", <<128, 128>>, 128, 3, 83),
  Ins("Conv2D", <<"res_out_3">>, "X", 256, 3, "same", 84) >>

DownSamplingBlock3 == <<
  Ins("AveragePooling2D", <<"X">>, "X", 0, 2, "valid", 87),
  Call("X", "res_out_4", <<256, 256>>, 256, 4, 88) >>

DownSamplingBlock4 == <<
  Ins("AveragePooling2D", <<"X">>, "X", 0, 2, "valid", 91),
  Call("X", "X", <<256, 256>>, 256, 5, 92) >>

UpSamplingBlock1 == <<
  Ins("UpSampling2D", <<"X">>, "X", 0, 2, "", 95),
  Ins("Concatenate", <<"res_out_4", "X">>, "X", 0, 0, "", 96),
  Call("X", "X", <<512, 512>>, 256, 6, 97) >>

UpSamplingBlock2 == <<
  Ins("UpSampling2D", <<"X">>, "X", 0, 2, "", 100),
  Ins("Concatenate", <<"res_out_3", "X">>, "X", 0, 0, "", 101),
  Call("X", "X", <<384, 384>>, 128, 7, 102) >>

UpSamplingBlock3 == <<
  Ins("UpSampling2D", <<"X">>, "X", 0, 2, "", 105),
  Ins("Concatenate", <<"res_out_2", "X">>, "X", 0, 0, "", 106),
  Call("X", "X", <<192, 192>>, 64, 8, 107) >>

UpSamplingBlock4 == <<
  Ins("UpSampling2D", <<"X">>, "X", 0, 2, "", 110),
  Ins("Concatenate", <<"res_out_1", "X">>, "X", 0, 0, "", 111),
  Call("X", "X", <<96, 96>>, 32, 9, 112) >>

\* variant: two output maps
ConvToOutputMapTwoMaps == <<
  Ins("Conv2D", <<"X">>, "X", 2, 3, "same", 115) >>

ConvToOutputMap == <<
  Ins("Conv2D", <<"X">>, "X", 1, 3, "same", 115) >>

CreateModel == <<
  Ins("Model", <<"input_layer", "X">>, "model", 0, 0, "", 118),
  Ins("Return", <<"model">>, "", 0, 0, "", 120) >>

CellDetectorBody ==
  Stem \o DownSamplingBlock1 \o DownSamplingBlock2 \o DownSamplingBlock3
       \o DownSamplingBlock4 \o UpSamplingBlock1 \o UpSamplingBlock2
       \o UpSamplingBlock3 \o UpSamplingBlock4 \o ConvToOutputMap \o CreateModel

\* __main__, test of the residual block, lines 132-134
ResidualTestBody == <<
  Ins("Placeholder", <<>>, "A_prev", 0, 0, "", 132),
  Call("A_prev", "A", <<args.F1, args.F2>>, args.channels, 1, 134) >>

\* ------------------------------------------------------------------ state
Names == {"input_layer", "X", "res_out_1", "res_out_2", "res_out_3", "res_out_4",
          "A_prev", "A"}

Locals == {"X", "X_shortcut"}

NoFrame == [filters |-> <<0, 0>>, channels |-> 0, stage |-> 0, arg |-> 0, dst |-> "",
            base |-> 0, locals |-> [v \in Locals |-> 0]]

NoModel == [inputs |-> 0, outputs |-> 0]

NoErr == [op |-> "", line |-> 0, stage |-> 0]

Node(op, ins, shape, attr) == [op |-> op, ins |-> ins, shape |-> shape, attr |-> attr]

InBlock == rpc > 0

MainBody == IF test = "residual_block" THEN ResidualTestBody ELSE CellDetectorBody

Body == IF InBlock THEN ResidualBody(frame.filters, frame.channels, frame.stage)
        ELSE MainBody

Running == status = "running" /\ (IF InBlock THEN rpc <= Len(Body) ELSE pc <= Len(Body))

Instr == Body[IF InBlock THEN rpc ELSE pc]

Val(v) == IF InBlock THEN frame.locals[v] ELSE env[v]

Shape(id) == graph[id].shape

\* the step binds dst to a node id and moves to the next instruction
Bind(dst, id) ==
  IF InBlock
  THEN /\ frame' = [frame EXCEPT !.locals[dst] = id]
       /\ rpc' = rpc + 1
       /\ UNCHANGED <<env, pc>>
  ELSE /\ env' = [env EXCEPT ![dst] = id]
       /\ pc' = pc + 1
       /\ UNCHANGED <<frame, rpc>>

\* a layer call succeeds: its output tensor is a new node of the graph
Emit(node) ==
  /\ graph' = Append(graph, node)
  /\ Bind(Instr.dst, Len(graph) + 1)
  /\ UNCHANGED <<test, args, calls, status, err, model>>

\* a layer call raises: the exception propagates, nothing is returned
Raise ==
  /\ status' = "error"
  /\ err' = [op |-> Instr.op, line |-> Instr.line, stage |-> frame.stage]
  /\ UNCHANGED <<test, args, graph, pc, env, rpc, frame, calls, model>>

Dims == 1..MaxDim

Init ==
  /\ test \in {"residual_block", "cell_detector"}
  /\ IF test = "cell_detector"
     THEN args \in [shape : (Dims \X Dims \X (1..MaxC)) \cup {DefaultShape},
                    F1 : {0}, F2 : {0}, channels : {0}]
     ELSE args \in [shape : (1..MaxRBDim) \X (1..MaxRBDim) \X (1..MaxF),
                    F1 : 1..MaxF, F2 : 1..MaxF, channels : 1..MaxF]
  /\ graph = <<>>
  /\ pc = 1
  /\ env = [v \in Names |-> 0]
  /\ rpc = 0
  /\ frame = NoFrame
  /\ calls = <<>>
  /\ status = "running"
  /\ err = NoErr
  /\ model = NoModel

\* ---------------------------------------------------------------- actions
\* input_layer = Input(input_shape)
StepInput ==
  /\ Running /\ Instr.op = "Input"
  /\ Emit(Node("Input", <<>>, args.shape, <<>>))

\* A_prev = tf.placeholder('float', [5, 128, 128, 3])
StepPlaceholder ==
  /\ Running /\ Instr.op = "Placeholder"
  /\ Emit(Node("Placeholder", <<>>, args.shape, <<>>))

\* X_shortcut = X
StepAssign ==
  /\ Running /\ Instr.op = "Assign"
  /\ Bind(Instr.dst, Val(Instr.src[1]))
  /\ UNCHANGED <<test, args, graph, calls, status, err, model>>

StepConv2D ==
  /\ Running /\ Instr.op = "Conv2D"
  /\ LET x == Val(Instr.src[1])
     IN  IF Conv2DOK(Shape(x), Instr.k, Instr.padding)
         THEN Emit(Node("Conv2D", <<x>>,
                        Conv2DShape(Shape(x), Instr.n, Instr.k, Instr.padding),
                        <<Instr.n, Instr.k>>))
         ELSE Raise

StepELU ==
  /\ Running /\ Instr.op = "ELU"
  /\ LET x == Val(Instr.src[1])
     IN  Emit(Node("ELU", <<x>>, Shape(x), <<>>))

StepDropout ==
  /\ Running /\ Instr.op = "Dropout"
  /\ LET x == Val(Instr.src[1])
     IN  Emit(Node("Dropout", <<x>>, Shape(x), <<Instr.n, Instr.k>>))

\* Lambda(lambda x: x * scaling_factor)
StepLambda ==
  /\ Running /\ Instr.op = "Lambda"
  /\ LET x == Val(Instr.src[1])
     IN  Emit(Node("Lambda", <<x>>, Shape(x), <<Instr.n, Instr.k>>))

StepAdd ==
  /\ Running /\ Instr.op = "Add"
  /\ LET a == Val(Instr.src[1])
         b == Val(Instr.src[2])
     IN  IF AddOK(Shape(a), Shape(b))
         THEN Emit(Node("Add", <<a, b>>, AddShape(Shape(a), Shape(b)), <<>>))
         ELSE Raise

StepAveragePooling2D ==
  /\ Running /\ Instr.op = "AveragePooling2D"
  /\ LET x == Val(Instr.src[1])
     IN  IF AveragePooling2DOK(Shape(x))
         THEN Emit(Node("AveragePooling2D", <<x>>, AveragePooling2DShape(Shape(x)),
                        <<Instr.k>>))
         ELSE Raise

StepUpSampling2D ==
  /\ Running /\ Instr.op = "UpSampling2D"
  /\ LET x == Val(Instr.src[1])
     IN  Emit(Node("UpSampling2D", <<x>>, UpSampling2DShape(Shape(x)), <<Instr.k>>))

StepConcatenate ==
  /\ Running /\ Instr.op = "Concatenate"
  /\ LET a == Val(Instr.src[1])
         b == Val(Instr.src[2])
     IN  IF ConcatenateOK(Shape(a), Shape(b))
         THEN Emit(Node("Concatenate", <<a, b>>, ConcatenateShape(Shape(a), Shape(b)),
                        <<>>))
         ELSE Raise

\* residual_block(X, filters, channels, stage) is entered
StepCall ==
  /\ Running /\ ~InBlock /\ Instr.op = "residual_block"
  /\ frame' = [filters |-> Instr.filters, channels |-> Instr.channels,
               stage |-> Instr.stage, arg |-> Val(Instr.src[1]), dst |-> Instr.dst,
               base |-> Len(graph),
               locals |-> [v \in Locals |-> IF v = "X" THEN Val(Instr.src[1]) ELSE 0]]
  /\ rpc' = 1
  /\ UNCHANGED <<test, args, graph, pc, env, calls, status, err, model>>

\* return X of residual_block: the caller binds the value
StepReturnBlock ==
  /\ Running /\ InBlock /\ Instr.op = "Return"
  /\ env' = [env EXCEPT ![frame.dst] = Val(Instr.src[1])]
  /\ calls' = Append(calls, [stage |-> frame.stage, filters |-> frame.filters,
                             channels |-> frame.channels, arg |-> frame.arg,
                             base |-> frame.base, out |-> Val(Instr.src[1])])
  /\ pc' = pc + 1
  /\ rpc' = 0
  /\ frame' = NoFrame
  /\ UNCHANGED <<test, args, graph, status, err, model>>

\* model = Model(inputs=input_layer, outputs=X, name='CellDetector')
StepModel ==
  /\ Running /\ Instr.op = "Model"
  /\ model' = [inputs |-> Val(Instr.src[1]), outputs |-> Val(Instr.src[2])]
  /\ pc' = pc + 1
  /\ UNCHANGED <<test, args, graph, env, rpc, frame, calls, status, err>>

\* return model
StepReturnModel ==
  /\ Running /\ ~InBlock /\ Instr.op = "Return"
  /\ status' = "returned"
  /\ pc' = pc + 1
  /\ UNCHANGED <<test, args, graph, env, rpc, frame, calls, err, model>>

Next ==
  \/ StepInput
  \/ StepPlaceholder
  \/ StepAssign
  \/ StepConv2D
  \/ StepELU
  \/ StepDropout
  \/ StepLambda
  \/ StepAdd
  \/ StepAveragePooling2D
  \/ StepUpSampling2D
  \/ StepConcatenate
  \/ StepCall
  \/ StepReturnBlock
  \/ StepModel
  \/ StepReturnModel

Spec == Init /\ [][Next]_vars

\* ------------------------------------------------------------- properties
CD == test = "cell_detector"

RB == test = "residual_block"

H == args.shape[1]

W == args.shape[2]

C == args.shape[3]

NodesOf(op) == {i \in 1..Len(graph) : graph[i].op = op}

\* the k-th node of a kind, in order of creation (0 when there is none yet)
Kth(op, k) ==
  LET S == {i \in NodesOf(op) : Cardinality({j \in NodesOf(op) : j <= i}) = k}
  IN  IF S = {} THEN 0 ELSE CHOOSE i \in S : TRUE

ResOut(j) == CASE j = 1 -> "res_out_1" [] j = 2 -> "res_out_2"
               [] j = 3 -> "res_out_3" [] OTHER -> "res_out_4"

Pow2(n) == CASE n = 0 -> 1 [] n = 1 -> 2 [] n = 2 -> 4 [] n = 3 -> 8 [] OTHER -> 16

Mult16 == H % 16 = 0 /\ W % 16 = 0

\* nodes a tensor is computed from, itself included
RECURSIVE Anc(_)
Anc(n) == {n} \cup UNION {Anc(graph[n].ins[j]) : j \in 1..Len(graph[n].ins)}

\* C1: with the default input shape (128, 128, 3) the build of cell_detector
\* never raises a shape error: the operands of every Add have the same shape,
\* the operands of every concatenate the same height and width, a running
\* build always has a next layer call, and a build that returned has a model.
C1_DefaultShapeBuilds ==
  (CD /\ args.shape = DefaultShape) =>
    /\ status # "error"
    /\ \A n \in NodesOf("Add") : Shape(graph[n].ins[1]) = Shape(graph[n].ins[2])
    /\ \A n \in NodesOf("Concatenate") :
         /\ Shape(graph[n].ins[1])[1] = Shape(graph[n].ins[2])[1]
         /\ Shape(graph[n].ins[1])[2] = Shape(graph[n].ins[2])[2]
    /\ status = "running" => Running
    /\ status = "returned" => model # NoModel

C1_Witness ==
  CD /\ args.shape = DefaultShape /\ status = "returned" /\ model.outputs = Len(graph)
     /\ Cardinality(NodesOf("Add")) = 9 /\ Cardinality(NodesOf("Concatenate")) = 4

\* C2: a residual_block call whose F2 equals the channels of its input never
\* stops at its Add, and every residual_block call that returns gives a tensor
\* of shape (H, W, channels) of its input's H and W, whatever F1 is; with
\* channels = C that is the input's shape.
C2_BlockShape ==
  /\ (status = "error" /\ err.op = "Add") => frame.filters[2] # Shape(frame.arg)[3]
  /\ (status = "error" /\ InBlock) => err.op = "Add"
  /\ \A i \in 1..Len(calls) :
       /\ Shape(calls[i].out) =
            <<Shape(calls[i].arg)[1], Shape(calls[i].arg)[2], calls[i].channels>>
       /\ calls[i].channels = Shape(calls[i].arg)[3] =>
            Shape(calls[i].out) = Shape(calls[i].arg)

C2_Witness ==
  RB /\ Len(calls) = 1 /\ args.F2 = C /\ args.channels = C /\ args.F1 # args.F2
     /\ H = MaxRBDim /\ W = 1 /\ Shape(calls[1].out) = args.shape

\* the residual branch F of a block entered with base b nodes in the graph and
\* argument a: ELU, Conv(3x3, F1), Dropout(0.2), ELU, Conv(3x3, F2), Scaling(0.3)
BranchAt(b, a, filters, top) ==
  /\ top >= b + 1 => graph[b + 1] = Node("ELU", <<a>>, Shape(a), <<>>)
  /\ top >= b + 2 => /\ graph[b + 2].op = "Conv2D" /\ graph[b + 2].ins = <<b + 1>>
                     /\ graph[b + 2].attr = <<filters[1], 3>>
  /\ top >= b + 3 => /\ graph[b + 3].op = "Dropout" /\ graph[b + 3].ins = <<b + 2>>
                     /\ graph[b + 3].attr = <<2, 10>>
  /\ top >= b + 4 => graph[b + 4].op = "ELU" /\ graph[b + 4].ins = <<b + 3>>
  /\ top >= b + 5 => /\ graph[b + 5].op = "Conv2D" /\ graph[b + 5].ins = <<b + 4>>
                     /\ graph[b + 5].attr = <<filters[2], 3>>
  /\ top >= b + 6 => /\ graph[b + 6].op = "Lambda" /\ graph[b + 6].ins = <<b + 5>>
                     /\ graph[b + 6].attr = <<3, 10>>

\* C3 as stated: the value residual_block returns is the sum itself.
C3_ReturnsSum ==
  \A i \in 1..Len(calls) :
    /\ graph[calls[i].out].op = "Add"
    /\ graph[calls[i].out].ins[2] = calls[i].arg

\* C3 amended: the value residual_block returns is a 1x1 Conv2D with `channels`
\* filters applied to the sum 0.3 * F(input) + input, input being the tensor
\* passed in.
C3_ReturnsConvOfSum ==
  \A i \in 1..Len(calls) :
    LET out == calls[i].out
        sum == graph[out].ins[1]
    IN  /\ graph[out].op = "Conv2D"
        /\ graph[out].attr = <<calls[i].channels, 1>>
        /\ graph[out].ins = <<sum>>
        /\ graph[sum].op = "Add"
        /\ graph[sum].ins = <<calls[i].base + 6, calls[i].arg>>
        /\ BranchAt(calls[i].base, calls[i].arg, calls[i].filters, out)
        /\ calls[i].arg <= calls[i].base

C3_Witness ==
  RB /\ Len(calls) = 1 /\ graph[calls[1].out].op = "Conv2D"
     /\ graph[graph[calls[1].out].ins[1]].op = "Add" /\ args.channels # args.F2

\* C4: the k-th concatenate of cell_detector joins res_out_(5-k), the output
\* of encoder residual block 5-k, with an UpSampling2D output of the same
\* height and width, and that resolution is (H div 2^(4-k), W div 2^(4-k)).
C4_LevelMatchedSkips ==
  CD => \A k \in 1..4 :
    LET n == Kth("Concatenate", k)
    IN  n # 0 =>
          LET skip == graph[n].ins[1]
              up   == graph[n].ins[2]
          IN  /\ skip = env[ResOut(5 - k)]
              /\ skip = calls[5 - k].out
              /\ calls[5 - k].stage = 5 - k
              /\ graph[up].op = "UpSampling2D"
              /\ Shape(skip)[1] = Shape(up)[1] /\ Shape(skip)[2] = Shape(up)[2]
              /\ Shape(skip)[1] = H \div Pow2(4 - k)
              /\ Shape(skip)[2] = W \div Pow2(4 - k)

C4_Witness ==
  CD /\ Kth("Concatenate", 4) # 0 /\ H = 16 /\ W = 16
     /\ Shape(graph[Kth("Concatenate", 1)].ins[1])[1] = 2
     /\ Shape(graph[Kth("Concatenate", 4)].ins[1])[1] = 16

\* C5: a cell_detector build that returns gives a model from the input of
\* shape (H, W, C) to an output of shape (H, W, 1), with four pooling and
\* four upsampling steps in between.
C5_OutputMap ==
  (CD /\ status = "returned") =>
    /\ graph[model.inputs].op = "Input"
    /\ Shape(model.inputs) = <<H, W, C>>
    /\ Shape(model.outputs) = <<H, W, 1>>
    /\ Cardinality(NodesOf("AveragePooling2D")) = 4
    /\ Cardinality(NodesOf("UpSampling2D")) = 4

C5_Witness ==
  CD /\ status = "returned" /\ C = 2 /\ H = 16 /\ Shape(model.outputs) = <<16, 16, 1>>

\* C6: at every residual_block call of cell_detector the channels argument is
\* the number of channels of the input feature X.
C6_ChannelsIsInputChannel ==
  (CD /\ InBlock) => frame.channels = Shape(frame.arg)[3]

\* C7: inside residual_block the layers are created in the order ELU,
\* Conv(3x3, F1), Dropout(0.2), ELU, Conv(3x3, F2), Scaling(0.3), each on the
\* output of the one before; the shortcut is the raw input, taken before the
\* first ELU exists; Add comes after Scaling and takes the scaled branch and
\* the shortcut.
C7_BranchOrder ==
  /\ InBlock =>
       /\ BranchAt(frame.base, frame.arg, frame.filters, Len(graph))
       /\ rpc = 1 => Len(graph) = frame.base
       /\ rpc > 1 => frame.locals["X_shortcut"] = frame.arg
       /\ frame.arg <= frame.base
       /\ Len(graph) >= frame.base + 7 =>
            /\ graph[frame.base + 7].op = "Add"
            /\ graph[frame.base + 7].ins = <<frame.base + 6, frame.arg>>
  /\ \A i \in 1..Len(calls) :
       /\ BranchAt(calls[i].base, calls[i].arg, calls[i].filters, calls[i].base + 6)
       /\ graph[calls[i].base + 7].op = "Add"
       /\ graph[calls[i].base + 7].ins = <<calls[i].base + 6, calls[i].arg>>
       /\ graph[calls[i].arg].op # "ELU"

C7_Witness ==
  CD /\ InBlock /\ frame.stage = 6 /\ Len(graph) = frame.base + 7
     /\ graph[Len(graph)].op = "Add" /\ graph[frame.base + 6].op = "Lambda"

\* C8: the input of the k-th AveragePooling2D of cell_detector (k = 1..4) is
\* computed from the output of the residual block of level k.
C8_PoolingChain ==
  CD => \A k \in 1..4 :
    LET p == Kth("AveragePooling2D", k)
    IN  p # 0 => calls[k].out \in Anc(graph[p].ins[1])

\* C9 as stated: the build returns exactly for H and W multiples of 16, and
\* every failing build stops at a concatenate.
C9_FailsAtConcatenate ==
  CD => /\ status = "returned" => Mult16
        /\ status = "error" => ~Mult16 /\ err.op = "Concatenate" /\ model = NoModel

\* C9 amended: the build returns exactly for H and W multiples of 16; a
\* failing build stops at a concatenate when H and W are both at least 16, and
\* at an AveragePooling2D whose input has an axis of length 1 when H or W is
\* below 16; in both cases no model is returned.
C9_FailsAtConcatenateOrPooling ==
  CD => /\ status = "returned" => Mult16
        /\ status = "error" =>
             /\ ~Mult16
             /\ model = NoModel /\ ~InBlock
             /\ (H >= 16 /\ W >= 16) => err.op = "Concatenate"
             /\ (H < 16 \/ W < 16) =>
                  /\ err.op = "AveragePooling2D"
                  /\ 1 \in {Shape(env["X"])[1], Shape(env["X"])[2]}
        /\ status = "running" => Running

C9_Witness ==
  CD /\ status = "error" /\ err.op = "Concatenate" /\ H = 17 /\ W = 16
     /\ Cardinality(NodesOf("Concatenate")) = 3

====
